---- MODULE Spec2Model ----
(***************************************************************************)
(* One drone (MyDrone, src/src/drone.rs) as a state machine.               *)
(*                                                                         *)
(* The drone is a single thread that selects, with priority to the        *)
(* controller channel, its next command or packet and handles it.  The     *)
(* two inbound channels are modelled by the number of messages waiting in  *)
(* them: a waiting message cannot be observed before it is received, so    *)
(* its contents are drawn when the drone receives it.  The channels of the *)
(* neighbours are modelled by the set of nodes to which a send fails: the  *)
(* receiver of their channel has been dropped.  An AddSender carries a     *)
(* Sender of an open or of a closed channel, which replaces the one held.  *)
(* The controller's event channel is assumed to stay connected.            *)
(*                                                                         *)
(* Arithmetic overflow panics or wraps with the build profile; both builds *)
(* are modelled.                                                           *)
(*                                                                         *)
(* hop_index is zero-based as in the source; sequences are one-based, so   *)
(* hops[i] of the source is At(hops, i).                                   *)
(***************************************************************************)
EXTENDS Integers, Sequences, FiniteSets, TLC

(***************************************************************************)
(* Bounds of the model.                                                    *)
(***************************************************************************)
MaxCommands == 1   \* commands that may wait in the controller channel
MaxPackets == 1    \* packets that may wait in the packet channel
PdrScale == 2      \* pdr and the random draw are k / PdrScale, k \in 0..PdrScale

(***************************************************************************)
(* Identities.                                                             *)
(***************************************************************************)
id == 2
Nodes == {1, 2, 3}
Neighbors == Nodes \ {id}
DropRates == 0..PdrScale
Draws == 0..PdrScale
NoDraw == 0 - 1

VARIABLES
    packet_send,          \* keys of the HashMap<NodeId, Sender<Packet>>
    pdr,                  \* drop rate, in units of 1 / PdrScale
    flood_cache,          \* HashSet<(NodeId, u64)>
    should_send_dropped,  \* the flag of the same name
    pc,                   \* "run": in run's loop, "crash": in crash's loop,
                          \* "panic": the thread has panicked
    crashed,              \* crash() has returned ("finally crashed" printed)
    controller_recv,      \* commands waiting in the controller channel
    packet_recv,          \* packets waiting in the packet channel
    closed,               \* nodes whose Sender, as last handed to the drone,
                          \* is of a channel whose receiver has been dropped
    seen,                 \* the (flood_id, initiator_id) of the FloodRequests
                          \* received so far in run's loop
    last,                 \* the input of the last step of the drone, and the
                          \* state it was taken in
    sent,                 \* packets delivered by the last step: <<[to, packet]>>
    events                \* controller events of the last step

vars == <<packet_send, pdr, flood_cache, should_send_dropped, pc, crashed,
          controller_recv, packet_recv, closed, seen, last, sent, events>>

(***************************************************************************)
(* Packets (wg_2024::packet::Packet as used by drone.rs).  One record      *)
(* shape for the five variants; the fields a variant does not have hold    *)
(* the defaults below.  `data` stands for total_n_fragments, length and    *)
(* data of a Fragment.                                                     *)
(***************************************************************************)
NoNack == <<"None", 0>>

Packet(pack_type, hops, hop_index, session_id, fragment_index, nack_type, flood_id, initiator_id, path_trace, data) ==
    [pack_type |-> pack_type, hops |-> hops, hop_index |-> hop_index,
     session_id |-> session_id, fragment_index |-> fragment_index,
     nack_type |-> nack_type, flood_id |-> flood_id,
     initiator_id |-> initiator_id, path_trace |-> path_trace, data |-> data]

NoPacket == Packet("None", <<>>, 0, 0, 0, NoNack, 0, 0, <<>>, 0)

SourceRoutingHeader(hop_index, hops) == [hop_index |-> hop_index, hops |-> hops]

routing_header(packet) == SourceRoutingHeader(packet.hop_index, packet.hops)

\* `sender` is the Sender an AddSender carries: "open" when the receiver of
\* its channel is alive, "closed" when it has been dropped
DroneCommand(cmd, arg) == [cmd |-> cmd, arg |-> arg, sender |-> "none"]

NoCommand == DroneCommand("None", 0)

(***************************************************************************)
(* Vec helpers.                                                            *)
(***************************************************************************)
Reverse(s) == [i \in 1..Len(s) |-> s[Len(s) + 1 - i]]

InRange(hops, i) == i >= 0 /\ i < Len(hops)

At(hops, i) == hops[i + 1]

contains(s, x) == \E i \in 1..Len(s) : s[i] = x

(***************************************************************************)
(* The effect of a handler: what it delivered, the events it emitted, the  *)
(* fields it may write, whether it panicked, and the draw of the Drop      *)
(* Simulator when it was consulted.                                        *)
(***************************************************************************)
Effect0 ==
    [sent |-> <<>>, events |-> <<>>, flood_cache |-> flood_cache,
     should_send_dropped |-> should_send_dropped, panicked |-> FALSE,
     draw |-> NoDraw]

Panic(o) == [o EXCEPT !.panicked = TRUE]

\* Variant of try_send_packet that leaves should_send_dropped set after
\* PacketDropped.
try_send_packet_keeps_flag(o, p, next_node_id) ==
    IF o.panicked THEN o
    ELSE IF next_node_id \in packet_send
    THEN IF next_node_id \notin closed
         THEN IF o.should_send_dropped
              THEN [o EXCEPT !.sent = Append(@, [to |-> next_node_id, packet |-> p]),
                             !.events = Append(@, [event |-> "PacketDropped", packet |-> p])]
              ELSE [o EXCEPT !.sent = Append(@, [to |-> next_node_id, packet |-> p]),
                             !.events = Append(@, [event |-> "PacketSent", packet |-> p])]
         ELSE Panic(o)
    ELSE Panic(o)

(***************************************************************************)
(* try_send_packet: the sender of next_node_id is looked up; an absent     *)
(* sender or a failed send panics; a successful send emits PacketDropped   *)
(* when should_send_dropped is set (and clears it), PacketSent otherwise.  *)
(***************************************************************************)
try_send_packet(o, p, next_node_id) ==
    IF o.panicked THEN o
    ELSE IF next_node_id \in packet_send
    THEN IF next_node_id \notin closed
         THEN IF o.should_send_dropped
              THEN [o EXCEPT !.sent = Append(@, [to |-> next_node_id, packet |-> p]),
                             !.events = Append(@, [event |-> "PacketDropped", packet |-> p]),
                             !.should_send_dropped = FALSE]
              ELSE [o EXCEPT !.sent = Append(@, [to |-> next_node_id, packet |-> p]),
                             !.events = Append(@, [event |-> "PacketSent", packet |-> p])]
         ELSE Panic(o)
    ELSE Panic(o)

\* Variant of NackFragmentIndex that copies the fragment index of any packet.
NackFragmentIndex_any(packet) == packet.fragment_index

(***************************************************************************)
(* send_nack: the fragment index of the Nack is that of a MsgFragment or   *)
(* of a Nack, 0 for every other packet.                                    *)
(***************************************************************************)
NackFragmentIndex(packet) ==
    IF packet.pack_type \in {"MsgFragment", "Nack"} THEN packet.fragment_index ELSE 0

send_nack(o, packet, nack_type, srh) ==
    LET p == Packet("Nack", srh.hops, srh.hop_index, packet.session_id,
                    NackFragmentIndex(packet), nack_type, 0, 0, <<>>, 0)
    IN  IF InRange(srh.hops, srh.hop_index)
        THEN try_send_packet(o, p, At(srh.hops, srh.hop_index))
        ELSE Panic(o)

send_ack(o, packet, srh) ==
    LET p == Packet("Ack", srh.hops, srh.hop_index, packet.session_id,
                    packet.fragment_index, NoNack, 0, 0, <<>>, 0)
    IN  IF InRange(srh.hops, srh.hop_index)
        THEN try_send_packet(o, p, At(srh.hops, srh.hop_index))
        ELSE Panic(o)

send_msg_fragment(o, packet, srh) ==
    LET p == Packet("MsgFragment", srh.hops, srh.hop_index, packet.session_id,
                    packet.fragment_index, NoNack, 0, 0, <<>>, packet.data)
    IN  IF InRange(srh.hops, srh.hop_index)
        THEN try_send_packet(o, p, At(srh.hops, srh.hop_index))
        ELSE Panic(o)

send_flood_response(o, packet, flood_id, path_trace, srh) ==
    LET p == Packet("FloodResponse", srh.hops, srh.hop_index, packet.session_id,
                    0, NoNack, flood_id, 0, path_trace, 0)
    IN  IF InRange(srh.hops, srh.hop_index)
        THEN try_send_packet(o, p, At(srh.hops, srh.hop_index))
        ELSE Panic(o)

(***************************************************************************)
(* Variant of reversed_srh without the sub_route truncation: the whole     *)
(* hop list is reversed.                                                   *)
(***************************************************************************)
reversed_srh_whole(srh) ==
    SourceRoutingHeader(1, Reverse(srh.hops))

(***************************************************************************)
(* The return header built in handle_packet before every generated Nack:   *)
(* sub_route(0..hop_index+1), reverse(), reset_hop_index(),                *)
(* increase_hop_index().                                                   *)
(***************************************************************************)
reversed_srh(srh) ==
    SourceRoutingHeader(1, Reverse(SubSeq(srh.hops, 1, srh.hop_index + 1)))

(***************************************************************************)
(* SourceRoutingHeader::reverse of wg_2024 as called for the flood         *)
(* response: the hops are reversed and hop_index becomes                   *)
(* len - hop_index - 1, a usize.  A negative result i stands for the       *)
(* wrapped value 2^64 + i of a build without overflow checks (adding to it *)
(* wraps back through 0 as adding to i does); a build with overflow checks *)
(* panics instead, which the caller models.                                *)
(***************************************************************************)
reverse(srh) ==
    SourceRoutingHeader(Len(srh.hops) - srh.hop_index - 1, Reverse(srh.hops))

(***************************************************************************)
(* The for loop over packet_send.clone() of the flood re-broadcast.  A     *)
(* HashMap iterates in an arbitrary order: `order` is the order taken.  A  *)
(* panic in try_send_packet ends the loop.                                 *)
(***************************************************************************)
RECURSIVE send_to_neighbors(_, _, _, _)
send_to_neighbors(o, p, prev_node_id, order) ==
    IF order = <<>> THEN o
    ELSE send_to_neighbors(
             IF prev_node_id # Head(order)
             THEN try_send_packet(o, p, Head(order))
             ELSE o,
             p, prev_node_id, Tail(order))

Orders(S) ==
    {s \in [1..Cardinality(S) -> S] : \A i, j \in 1..Cardinality(S) : s[i] = s[j] => i = j}

\* Variant of is_in_cache that never finds the flood in the cache.
is_in_cache_never(packet) == FALSE

\* Variant of has_neighbors that counts the neighbour the request came from.
has_neighbors_any == Cardinality(packet_send) > 0

(***************************************************************************)
(* The two tests of the FloodRequest branch: the cache is keyed by the     *)
(* drone's own id and the flood id; the drone has neighbours when its      *)
(* table has more than one entry.                                          *)
(***************************************************************************)
is_in_cache(packet) == <<id, packet.flood_id>> \in flood_cache

has_neighbors == Cardinality(packet_send) > 1

(***************************************************************************)
(* NodeId is u8: previous_hop().unwrap() - 1 wraps modulo 2^8 in a build   *)
(* without overflow checks.                                                *)
(***************************************************************************)
NodeIdWidth == 256

(***************************************************************************)
(* handle_packet, FloodRequest branch.  overflow_checks is the build       *)
(* profile: with overflow checks (cargo's dev profile) an arithmetic       *)
(* overflow panics, without them (release profile) it wraps.               *)
(***************************************************************************)
handle_flood_request(o, packet, order, overflow_checks) ==
    LET key == <<id, packet.flood_id>>
    IN  IF ~is_in_cache(packet) /\ has_neighbors
        THEN LET o1 == [o EXCEPT !.flood_cache = @ \cup {key}]
                 new_hops == IF contains(packet.hops, id) THEN packet.hops
                             ELSE Append(packet.hops, id)
                 p == Packet("FloodRequest", new_hops, packet.hop_index,
                             packet.session_id, 0, NoNack, packet.flood_id,
                             packet.initiator_id,
                             Append(packet.path_trace, <<id, "Drone">>), 0)
             IN  \* previous_hop().unwrap() - 1
                 IF packet.hop_index # 0 /\ InRange(new_hops, packet.hop_index - 1)
                 THEN IF overflow_checks /\ At(new_hops, packet.hop_index - 1) = 0
                      THEN Panic(o1)
                      ELSE send_to_neighbors(
                               o1, p,
                               (At(new_hops, packet.hop_index - 1) - 1) % NodeIdWidth,
                               order)
                 ELSE Panic(o1)
        ELSE LET o1 == [o EXCEPT !.flood_cache = @ \cup {key}]
                 hops == IF contains(packet.hops, id) THEN packet.hops
                         ELSE Append(packet.hops, id)
                 new_path_trace == IF contains(packet.path_trace, <<id, "Drone">>)
                                   THEN packet.path_trace
                                   ELSE Append(packet.path_trace, <<id, "Drone">>)
                 r == reverse(SourceRoutingHeader(packet.hop_index, hops))
             IN  IF overflow_checks /\ r.hop_index < 0
                 THEN Panic(o1)
                 ELSE send_flood_response(o1, packet, packet.flood_id, new_path_trace,
                                          SourceRoutingHeader(r.hop_index + 1, r.hops))

(***************************************************************************)
(* handle_packet, per-variant dispatch once the three checks have passed.  *)
(* The fragment is dropped iff the draw is less than pdr.                  *)
(***************************************************************************)
is_dropped(draw) == draw < pdr

\* Variant of forward_packet that does not advance hop_index.
forward_packet_stale(o, packet, draw) ==
    LET srh == routing_header(packet)
    IN  CASE packet.pack_type = "Nack" -> send_nack(o, packet, packet.nack_type, srh)
          [] packet.pack_type = "Ack" -> send_ack(o, packet, srh)
          [] packet.pack_type = "MsgFragment" ->
                IF is_dropped(draw)
                THEN send_nack([o EXCEPT !.should_send_dropped = TRUE, !.draw = draw],
                               packet, <<"Dropped", 0>>, reversed_srh(srh))
                ELSE send_msg_fragment([o EXCEPT !.draw = draw], packet, srh)
          [] packet.pack_type = "FloodResponse" ->
                send_flood_response(o, packet, packet.flood_id, packet.path_trace, srh)

forward_packet(o, packet, draw) ==
    LET hops == packet.hops
        hop_index == packet.hop_index + 1
    IN  CASE packet.pack_type = "Nack" ->
                send_nack(o, packet, packet.nack_type, SourceRoutingHeader(hop_index, hops))
          [] packet.pack_type = "Ack" ->
                send_ack(o, packet, SourceRoutingHeader(hop_index, hops))
          [] packet.pack_type = "MsgFragment" ->
                IF is_dropped(draw)
                THEN send_nack([o EXCEPT !.should_send_dropped = TRUE, !.draw = draw],
                               packet, <<"Dropped", 0>>,
                               reversed_srh(routing_header(packet)))
                ELSE send_msg_fragment([o EXCEPT !.draw = draw], packet,
                                       SourceRoutingHeader(hop_index, hops))
          [] packet.pack_type = "FloodResponse" ->
                send_flood_response(o, packet, packet.flood_id, packet.path_trace,
                                    SourceRoutingHeader(hop_index, hops))

is_last_hop(srh) == srh.hop_index = Len(srh.hops) - 1

\* Variant of handle_packet whose ErrorInRouting carries the drone's own id.
handle_packet_own_id(o, packet, draw, order, overflow_checks) ==
    LET srh == routing_header(packet)
    IN  IF packet.pack_type = "FloodRequest"
        THEN handle_flood_request(o, packet, order, overflow_checks)
        ELSE IF ~InRange(srh.hops, srh.hop_index)
        THEN Panic(o)
        ELSE IF At(srh.hops, srh.hop_index) # id
        THEN send_nack(o, packet, <<"UnexpectedRecipient", id>>, reversed_srh(srh))
        ELSE IF is_last_hop(srh)
        THEN send_nack(o, packet, <<"DestinationIsDrone", 0>>, reversed_srh(srh))
        ELSE IF At(srh.hops, srh.hop_index + 1) \notin packet_send
        THEN send_nack(o, packet, <<"ErrorInRouting", id>>, reversed_srh(srh))
        ELSE forward_packet(o, packet, draw)

\* Variant of handle_packet that consults the Drop Simulator before the
\* destination check.
handle_packet_drop_first(o, packet, draw, order, overflow_checks) ==
    LET srh == routing_header(packet)
    IN  IF packet.pack_type = "FloodRequest"
        THEN handle_flood_request(o, packet, order, overflow_checks)
        ELSE IF ~InRange(srh.hops, srh.hop_index)
        THEN Panic(o)
        ELSE IF At(srh.hops, srh.hop_index) # id
        THEN send_nack(o, packet, <<"UnexpectedRecipient", id>>, reversed_srh(srh))
        ELSE IF packet.pack_type = "MsgFragment" /\ is_dropped(draw)
        THEN send_nack([o EXCEPT !.should_send_dropped = TRUE, !.draw = draw],
                       packet, <<"Dropped", 0>>, reversed_srh(srh))
        ELSE IF is_last_hop(srh)
        THEN send_nack(o, packet, <<"DestinationIsDrone", 0>>, reversed_srh(srh))
        ELSE IF At(srh.hops, srh.hop_index + 1) \notin packet_send
        THEN send_nack(o, packet,
                       <<"ErrorInRouting", At(srh.hops, srh.hop_index + 1)>>,
                       reversed_srh(srh))
        ELSE forward_packet(o, packet, draw)

(***************************************************************************)
(* handle_packet.                                                          *)
(***************************************************************************)
handle_packet(o, packet, draw, order, overflow_checks) ==
    LET srh == routing_header(packet)
    IN  IF packet.pack_type = "FloodRequest"
        THEN handle_flood_request(o, packet, order, overflow_checks)
        ELSE IF ~InRange(srh.hops, srh.hop_index)     \* current_hop().unwrap()
        THEN Panic(o)
        ELSE IF At(srh.hops, srh.hop_index) # id
        THEN send_nack(o, packet, <<"UnexpectedRecipient", id>>, reversed_srh(srh))
        ELSE IF is_last_hop(srh)
        THEN send_nack(o, packet, <<"DestinationIsDrone", 0>>, reversed_srh(srh))
        ELSE IF At(srh.hops, srh.hop_index + 1) \notin packet_send
        THEN send_nack(o, packet,
                       <<"ErrorInRouting", At(srh.hops, srh.hop_index + 1)>>,
                       reversed_srh(srh))
        ELSE forward_packet(o, packet, draw)

\* Variant of crash_packet that does not advance hop_index.
crash_packet_stale(o, packet) ==
    LET srh == routing_header(packet)
    IN  CASE packet.pack_type = "FloodRequest" -> o
          [] packet.pack_type = "Ack" -> send_ack(o, packet, srh)
          [] packet.pack_type = "Nack" -> send_nack(o, packet, packet.nack_type, srh)
          [] packet.pack_type = "FloodResponse" ->
                send_flood_response(o, packet, packet.flood_id, packet.path_trace, srh)
          [] packet.pack_type = "MsgFragment" ->
                send_nack(o, packet, <<"ErrorInRouting", id>>, srh)

(***************************************************************************)
(* The packet arm of crash's loop.                                         *)
(***************************************************************************)
crash_packet(o, packet) ==
    LET hops == packet.hops
        hop_index == packet.hop_index + 1
    IN  CASE packet.pack_type = "FloodRequest" -> o
          [] packet.pack_type = "Ack" ->
                send_ack(o, packet, SourceRoutingHeader(hop_index, hops))
          [] packet.pack_type = "Nack" ->
                send_nack(o, packet, packet.nack_type, SourceRoutingHeader(hop_index, hops))
          [] packet.pack_type = "FloodResponse" ->
                send_flood_response(o, packet, packet.flood_id, packet.path_trace,
                                    SourceRoutingHeader(hop_index, hops))
          [] packet.pack_type = "MsgFragment" ->
                send_nack(o, packet, <<"ErrorInRouting", id>>,
                          SourceRoutingHeader(hop_index, hops))

(***************************************************************************)
(* handle_command, and the command arm of crash's loop.  Both return the   *)
(* fields a command may write: [packet_send, pdr, pc, crashed, closed].    *)
(* AddSender inserts the Sender it carries, replacing the one held for the *)
(* node: sends to the node fail from then on iff that Sender's channel is  *)
(* closed.                                                                 *)
(***************************************************************************)
handle_command(command) ==
    CASE command.cmd = "SetPacketDropRate" ->
            [packet_send |-> packet_send, pdr |-> command.arg, pc |-> "run",
             crashed |-> crashed, closed |-> closed]
      [] command.cmd = "Crash" ->
            [packet_send |-> packet_send, pdr |-> pdr, pc |-> "crash",
             crashed |-> crashed, closed |-> closed]
      [] command.cmd = "AddSender" ->
            [packet_send |-> packet_send \cup {command.arg}, pdr |-> pdr, pc |-> "run",
             crashed |-> crashed,
             closed |-> IF command.sender = "open"
                        THEN closed \ {command.arg}
                        ELSE closed \cup {command.arg}]
      [] command.cmd = "RemoveSender" ->
            [packet_send |-> packet_send \ {command.arg}, pdr |-> pdr, pc |-> "run",
             crashed |-> crashed, closed |-> closed]

\* Variant of crash_command that applies every command as handle_command does.
crash_command_applies(command) ==
    IF command.cmd = "RemoveSender"
    THEN IF packet_send \ {command.arg} = {}
         THEN [packet_send |-> {}, pdr |-> pdr, pc |-> "run", crashed |-> TRUE,
               closed |-> closed]
         ELSE [packet_send |-> packet_send \ {command.arg}, pdr |-> pdr,
               pc |-> "crash", crashed |-> crashed, closed |-> closed]
    ELSE [handle_command(command) EXCEPT !.pc = "crash"]

crash_command(command) ==
    IF command.cmd = "RemoveSender"
    THEN IF packet_send \ {command.arg} = {}
         THEN [packet_send |-> {}, pdr |-> pdr, pc |-> "run", crashed |-> TRUE,
               closed |-> closed]
         ELSE [packet_send |-> packet_send \ {command.arg}, pdr |-> pdr,
               pc |-> "crash", crashed |-> crashed, closed |-> closed]
    ELSE [packet_send |-> packet_send, pdr |-> pdr, pc |-> "crash", crashed |-> crashed,
          closed |-> closed]

\* Variant of select_biased with the two arms in the other order.
select_biased_packet_first(command_ready, packet_ready) ==
    IF packet_ready THEN "packet"
    ELSE IF command_ready THEN "command"
    ELSE "block"

(***************************************************************************)
(* select_biased! over (controller_recv, packet_recv): the first ready     *)
(* operation in the order written is taken.                                *)
(***************************************************************************)
select_biased(command_ready, packet_ready) ==
    IF command_ready THEN "command"
    ELSE IF packet_ready THEN "packet"
    ELSE "block"

(***************************************************************************)
(* The inputs: what the controller and the neighbours may send.            *)
(***************************************************************************)
Commands ==
    {DroneCommand("SetPacketDropRate", r) : r \in DropRates}
    \cup {DroneCommand("Crash", 0)}
    \cup {[DroneCommand("AddSender", n) EXCEPT !.sender = s]
              : n \in Neighbors, s \in {"open", "closed"}}
    \cup {DroneCommand("RemoveSender", n) : n \in Neighbors}

Routes ==
    UNION {{h \in [1..n -> Nodes] : \A i, j \in 1..n : h[i] = h[j] => i = j}
           : n \in 1..Cardinality(Nodes)}

Headers ==
    UNION {{SourceRoutingHeader(i, h) : i \in 0..Len(h)} : h \in Routes}

Sessions == {5, 6}

Trace1 == <<<<1, "Client">>>>
Trace13 == <<<<1, "Client">>, <<3, "Drone">>>>
Trace12 == <<<<1, "Client">>, <<2, "Drone">>>>

RoutedPackets ==
    UNION {
        {Packet("MsgFragment", srh.hops, srh.hop_index, sid, fi, NoNack, 0, 0, <<>>, 9)
            : fi \in {0, 1}}
        \cup {Packet("Ack", srh.hops, srh.hop_index, sid, 1, NoNack, 0, 0, <<>>, 0),
              Packet("Nack", srh.hops, srh.hop_index, sid, 1, <<"Dropped", 0>>, 0, 0, <<>>, 0),
              Packet("Nack", srh.hops, srh.hop_index, sid, 0, <<"ErrorInRouting", 3>>,
                     0, 0, <<>>, 0),
              Packet("FloodResponse", srh.hops, srh.hop_index, sid, 0, NoNack, 7, 0,
                     Trace13, 0)}
        : srh \in Headers, sid \in Sessions}

FloodHeaders ==
    UNION {{SourceRoutingHeader(i, h) : i \in 0..Len(h)}
           : h \in {<<>>, <<0>>, <<1>>, <<3>>, <<1, 3>>, <<1, 2>>, <<1, 2, 3>>}}

\* (flood_id, initiator_id): two initiators that use the same flood id
Floods == {<<7, 1>>, <<7, 3>>}

FloodRequests ==
    {Packet("FloodRequest", srh.hops, srh.hop_index, 5, 0, NoNack, f[1], f[2], trace, 0)
        : srh \in FloodHeaders, f \in Floods, trace \in {Trace1, Trace13, Trace12}}

Packets == RoutedPackets \cup FloodRequests

(***************************************************************************)
(* Init: the state after MyDrone::new; packet_send and pdr are its         *)
(* arguments.                                                              *)
(***************************************************************************)
Pre == [packet_send |-> packet_send, pdr |-> pdr, flood_cache |-> flood_cache,
        closed |-> closed, pc |-> pc, crashed |-> crashed, seen |-> seen]

NoPre == [packet_send |-> {}, pdr |-> 0, flood_cache |-> {}, closed |-> {},
          pc |-> "none", crashed |-> FALSE, seen |-> {}]

Last(kind, command, packet, draw) ==
    [kind |-> kind, command |-> command, packet |-> packet, draw |-> draw,
     command_ready |-> controller_recv > 0, packet_ready |-> packet_recv > 0,
     pre |-> Pre]

Init ==
    /\ packet_send \in SUBSET Neighbors
    /\ pdr \in DropRates
    /\ flood_cache = {}
    /\ should_send_dropped = FALSE
    /\ pc = "run"
    /\ crashed = FALSE
    /\ controller_recv = 0
    /\ packet_recv = 0
    /\ closed = {}
    /\ seen = {}
    /\ last = [kind |-> "none", command |-> NoCommand, packet |-> NoPacket,
               draw |-> NoDraw, command_ready |-> FALSE, packet_ready |-> FALSE,
               pre |-> NoPre]
    /\ sent = <<>>
    /\ events = <<>>

(***************************************************************************)
(* The environment: the controller sends a command, a neighbour sends a    *)
(* packet (both fail once the drone's receivers are gone), a neighbour's   *)
(* receiver is dropped.                                                    *)
(***************************************************************************)
SendCommand ==
    /\ pc # "panic"
    /\ controller_recv < MaxCommands
    /\ controller_recv' = controller_recv + 1
    /\ UNCHANGED <<packet_send, pdr, flood_cache, should_send_dropped, pc, crashed,
                   packet_recv, closed, seen, last, sent, events>>

SendPacket ==
    /\ pc # "panic"
    /\ packet_recv < MaxPackets
    /\ packet_recv' = packet_recv + 1
    /\ UNCHANGED <<packet_send, pdr, flood_cache, should_send_dropped, pc, crashed,
                   controller_recv, closed, seen, last, sent, events>>

Disconnect(n) ==
    /\ pc # "panic"
    /\ n \notin closed
    /\ closed' = closed \cup {n}
    /\ UNCHANGED <<packet_send, pdr, flood_cache, should_send_dropped, pc, crashed,
                   controller_recv, packet_recv, seen, last, sent, events>>

(***************************************************************************)
(* The drone: one iteration of run's loop or of crash's loop.  `last`,     *)
(* `sent` and `events` describe the iteration in progress; they are        *)
(* dropped when the drone comes back to the head of its loop, where it     *)
(* selects its next input.                                                 *)
(***************************************************************************)
AtLoopHead == last.kind = "none"

ApplyCommand(r, command) ==
    /\ controller_recv' = controller_recv - 1
    /\ packet_send' = r.packet_send
    /\ pdr' = r.pdr
    /\ pc' = r.pc
    /\ crashed' = r.crashed
    /\ closed' = r.closed
    /\ last' = Last("command", command, NoPacket, NoDraw)
    /\ sent' = <<>>
    /\ events' = <<>>
    /\ UNCHANGED <<flood_cache, should_send_dropped, packet_recv, seen>>

ApplyPacket(o, packet) ==
    /\ packet_recv' = packet_recv - 1
    /\ flood_cache' = o.flood_cache
    /\ should_send_dropped' = o.should_send_dropped
    /\ pc' = IF o.panicked THEN "panic" ELSE pc
    /\ seen' = IF pc = "run" /\ packet.pack_type = "FloodRequest"
               THEN seen \cup {<<packet.flood_id, packet.initiator_id>>}
               ELSE seen
    /\ last' = Last("packet", NoCommand, packet, o.draw)
    /\ sent' = o.sent
    /\ events' = o.events
    /\ UNCHANGED <<packet_send, pdr, crashed, controller_recv, closed>>

RunCommand ==
    /\ pc = "run"
    /\ AtLoopHead
    /\ select_biased(controller_recv > 0, packet_recv > 0) = "command"
    /\ \E command \in Commands : ApplyCommand(handle_command(command), command)

RunPacket ==
    /\ pc = "run"
    /\ AtLoopHead
    /\ select_biased(controller_recv > 0, packet_recv > 0) = "packet"
    /\ \E packet \in Packets, draw \in Draws, order \in Orders(packet_send),
          overflow_checks \in BOOLEAN :
           ApplyPacket(handle_packet(Effect0, packet, draw, order, overflow_checks),
                       packet)

CrashCommand ==
    /\ pc = "crash"
    /\ AtLoopHead
    /\ select_biased(controller_recv > 0, packet_recv > 0) = "command"
    /\ \E command \in Commands : ApplyCommand(crash_command(command), command)

CrashPacket ==
    /\ pc = "crash"
    /\ AtLoopHead
    /\ select_biased(controller_recv > 0, packet_recv > 0) = "packet"
    /\ \E packet \in Packets : ApplyPacket(crash_packet(Effect0, packet), packet)

Loop ==
    /\ pc # "panic"
    /\ ~AtLoopHead
    /\ last' = [kind |-> "none", command |-> NoCommand, packet |-> NoPacket,
                draw |-> NoDraw, command_ready |-> FALSE, packet_ready |-> FALSE,
                pre |-> NoPre]
    /\ sent' = <<>>
    /\ events' = <<>>
    /\ UNCHANGED <<packet_send, pdr, flood_cache, should_send_dropped, pc, crashed,
                   controller_recv, packet_recv, closed, seen>>

Next ==
    \/ Loop
    \/ SendCommand
    \/ SendPacket
    \/ \E n \in Neighbors : Disconnect(n)
    \/ RunCommand
    \/ RunPacket
    \/ CrashCommand
    \/ CrashPacket

Spec == Init /\ [][Next]_vars

(***************************************************************************)
(* Fair scheduling.  The drone's thread keeps running: each step of its    *)
(* loops is taken when it stays enabled.  The controller keeps sending     *)
(* commands, and to a Crashing drone it eventually sends RemoveSender(n)   *)
(* for every neighbour n: the drone, which takes a waiting command before  *)
(* any packet, then receives it in crash's loop.                           *)
(***************************************************************************)
CrashRemoveSender(n) ==
    /\ pc = "crash"
    /\ AtLoopHead
    /\ select_biased(controller_recv > 0, packet_recv > 0) = "command"
    /\ ApplyCommand(crash_command(DroneCommand("RemoveSender", n)),
                    DroneCommand("RemoveSender", n))

Fairness ==
    /\ WF_vars(Loop)
    /\ WF_vars(RunCommand)
    /\ WF_vars(RunPacket)
    /\ WF_vars(CrashCommand)
    /\ WF_vars(CrashPacket)
    /\ WF_vars(SendCommand)
    /\ \A n \in Neighbors : SF_vars(CrashRemoveSender(n))

FairSpec == Init /\ [][Next]_vars /\ Fairness

(***************************************************************************)
(* Vocabulary of the properties.  They are stated on the iteration in      *)
(* progress: the packet or command it received (last), the state it was    *)
(* received in (last.pre) and what it delivered and reported.              *)
(***************************************************************************)
HandledPacket(loop) == last.kind = "packet" /\ last.pre.pc = loop

HandledCommand(loop) == last.kind = "command" /\ last.pre.pc = loop

CursorInRange == InRange(last.packet.hops, last.packet.hop_index)

CurrentHop == At(last.packet.hops, last.packet.hop_index)

HasNextHop == InRange(last.packet.hops, last.packet.hop_index + 1)

NextHop == At(last.packet.hops, last.packet.hop_index + 1)

HasPreviousHop == last.packet.hop_index >= 1

PreviousHop == At(last.packet.hops, last.packet.hop_index - 1)

\* a send to n could succeed when the packet was received
Reachable(n) == n \in last.pre.packet_send /\ n \notin last.pre.closed

\* the packet passes the recipient, destination and next-hop checks
PassesChecks ==
    /\ last.packet.pack_type # "FloodRequest"
    /\ CursorInRange
    /\ CurrentHop = id
    /\ HasNextHop
    /\ NextHop \in last.pre.packet_send

\* the Drop Simulator was consulted and selected the fragment
Dropped == last.draw # NoDraw /\ last.draw < last.pre.pdr

Advanced == [last.packet EXCEPT !.hop_index = @ + 1]

ReturnHops == Reverse(SubSeq(last.packet.hops, 1, last.packet.hop_index + 1))

(***************************************************************************)
(* C1.  In the Running state, an inbound MsgFragment that is not dropped,  *)
(* Ack, Nack or FloodResponse whose current hop is this node, whose cursor *)
(* is not at the last hop and whose next hop is a neighbour the drone can  *)
(* send to: exactly one packet is delivered, to the next hop, with the     *)
(* hops, the payload and the session id unchanged and hop_index advanced   *)
(* by one, and exactly one event, PacketSent of that packet, is emitted.   *)
(***************************************************************************)
C1_Case ==
    /\ HandledPacket("run")
    /\ PassesChecks
    /\ Reachable(NextHop)
    /\ ~Dropped

C1_ForwardedOnce ==
    C1_Case =>
        /\ sent = <<[to |-> NextHop, packet |-> Advanced]>>
        /\ events = <<[event |-> "PacketSent", packet |-> Advanced]>>

C1_Witness ==
    /\ C1_Case
    /\ last.packet.pack_type = "MsgFragment"
    /\ last.packet.hops = <<1, 2, 3>>
    /\ last.packet.hop_index = 1
    /\ last.pre.pdr = 0
    /\ Len(sent) = 1
    /\ sent[1].to = 3
    /\ sent[1].packet.hop_index = 2
    /\ events[1].event = "PacketSent"

(***************************************************************************)
(* C2.  Forwarding determinism: a MsgFragment that passes the three checks *)
(* in the Running state is, for every draw in [0, 1], forwarded when the   *)
(* drop rate is 0, and answered by Nack(Dropped) and not forwarded when    *)
(* the drop rate is 1.                                                     *)
(***************************************************************************)
C2_Case ==
    /\ HandledPacket("run")
    /\ last.packet.pack_type = "MsgFragment"
    /\ PassesChecks
    /\ Reachable(NextHop)
    /\ HasPreviousHop
    /\ Reachable(PreviousHop)

FragmentForwarded ==
    \E i \in 1..Len(sent) : sent[i].packet.pack_type = "MsgFragment"

NackDroppedSent ==
    \E i \in 1..Len(sent) :
        sent[i].packet.pack_type = "Nack" /\ sent[i].packet.nack_type = <<"Dropped", 0>>

C2_Determinism ==
    C2_Case =>
        /\ last.pre.pdr = 0 => FragmentForwarded /\ ~NackDroppedSent
        /\ last.pre.pdr = PdrScale => NackDroppedSent /\ ~FragmentForwarded

(***************************************************************************)
(* C3.  A Nack that a Running drone generates in answer to a non-flood     *)
(* packet with hops h and cursor c (UnexpectedRecipient,                   *)
(* DestinationIsDrone, ErrorInRouting or Dropped) has hops                 *)
(* reverse(h[0..=c]), hop_index 1 and the session id of the packet; it is  *)
(* the only packet delivered, and it goes to h[c-1] whenever the drone can *)
(* send to h[c-1].  A Nack with hop_index 1 addressed to this drone and    *)
(* with a hop after it is forwarded, unchanged but for hop_index 2, to     *)
(* that hop.                                                               *)
(***************************************************************************)
ExpectedNack ==
    CASE CurrentHop # id -> "UnexpectedRecipient"
      [] CurrentHop = id /\ ~HasNextHop -> "DestinationIsDrone"
      [] CurrentHop = id /\ HasNextHop /\ NextHop \notin last.pre.packet_send ->
            "ErrorInRouting"
      [] OTHER -> "Dropped"

AnswersWithNack ==
    /\ HandledPacket("run")
    /\ last.packet.pack_type # "FloodRequest"
    /\ CursorInRange
    /\ \/ CurrentHop # id
       \/ ~HasNextHop
       \/ NextHop \notin last.pre.packet_send
       \/ Dropped

IsReturnNack(m) ==
    /\ m.to = PreviousHop
    /\ m.packet.pack_type = "Nack"
    /\ m.packet.hops = ReturnHops
    /\ m.packet.hop_index = 1
    /\ m.packet.session_id = last.packet.session_id
    /\ m.packet.nack_type[1] = ExpectedNack

C3_NackOnReversedRoute ==
    /\ AnswersWithNack =>
          /\ \A i \in 1..Len(sent) : HasPreviousHop /\ IsReturnNack(sent[i])
          /\ HasPreviousHop /\ Reachable(PreviousHop) => Len(sent) = 1
    /\ ( /\ HandledPacket("run")
         /\ last.packet.pack_type = "Nack"
         /\ last.packet.hop_index = 1
         /\ PassesChecks
         /\ Reachable(NextHop) )
       => sent = <<[to |-> NextHop, packet |-> Advanced]>>

C3_Witness ==
    /\ AnswersWithNack
    /\ last.packet.hops = <<3, 1, 2>>
    /\ last.packet.hop_index = 2
    /\ Len(sent) = 1
    /\ sent[1].to = 1
    /\ sent[1].packet.hops = <<2, 1, 3>>
    /\ sent[1].packet.nack_type = <<"DestinationIsDrone", 0>>

(***************************************************************************)
(* C4.  When the Drop Simulator discards a MsgFragment and the             *)
(* Nack(Dropped) is sent back, the controller receives two events:         *)
(* PacketDropped carrying the discarded fragment, and PacketSent carrying  *)
(* the Nack.                                                               *)
(***************************************************************************)
C4_Case ==
    /\ HandledPacket("run")
    /\ PassesChecks
    /\ Dropped
    /\ HasPreviousHop
    /\ Reachable(PreviousHop)

IsTheFragment(q) ==
    /\ q.pack_type = "MsgFragment"
    /\ q.hops = last.packet.hops
    /\ q.session_id = last.packet.session_id
    /\ q.fragment_index = last.packet.fragment_index
    /\ q.data = last.packet.data

C4_TwoEvents ==
    C4_Case =>
        /\ Len(sent) = 1
        /\ Len(events) = 2
        /\ \E i \in 1..Len(events) :
               events[i].event = "PacketDropped" /\ IsTheFragment(events[i].packet)
        /\ \E i \in 1..Len(events) :
               events[i].event = "PacketSent" /\ events[i].packet = sent[1].packet

(***************************************************************************)
(* C5.  Command priority: in run's loop and in crash's loop, when a        *)
(* command and a packet are both ready as the drone selects its input, the *)
(* drone takes the command, and the command has had its effect (Crash,     *)
(* AddSender, RemoveSender) while the packet is still to be handled.       *)
(***************************************************************************)
BothReady == last.kind # "none" /\ last.command_ready /\ last.packet_ready

C5_CommandFirst ==
    BothReady =>
        /\ last.kind = "command"
        /\ sent = <<>>
        /\ last.command.cmd = "Crash" => pc = "crash"
        /\ last.command.cmd = "RemoveSender" => last.command.arg \notin packet_send
        /\ last.command.cmd = "AddSender" /\ last.pre.pc = "run" =>
               last.command.arg \in packet_send

C5_Witness ==
    /\ BothReady
    /\ last.pre.pc = "crash"
    /\ last.command.cmd = "RemoveSender"
    /\ last.command.arg \in last.pre.packet_send
    /\ last.command.arg \notin packet_send

(***************************************************************************)
(* C6.  Terminated is terminal: once crash() has returned because          *)
(* RemoveSender emptied the neighbour table, the drone takes no further    *)
(* command or packet, sends nothing and emits nothing.                     *)
(***************************************************************************)
C6_TerminatedIsTerminal ==
    crashed =>
        /\ sent = <<>>
        /\ events = <<>>
        /\ \/ last.kind = "none"
           \/ /\ HandledCommand("crash")
              /\ ~last.pre.crashed
              /\ last.command.cmd = "RemoveSender"

(***************************************************************************)
(* C7.  Once Crashing, the drone is Terminated exactly when its neighbour  *)
(* table is empty: crash's loop is left only by a RemoveSender that leaves *)
(* the table empty, a RemoveSender that leaves a neighbour keeps the drone *)
(* Crashing, and the drone is never Crashing with an empty table (also     *)
(* when the table was empty as Crash was received).                        *)
(***************************************************************************)
C7_TerminatedIffEmpty ==
    /\ last.kind # "none" /\ last.pre.pc = "crash" /\ pc = "run" =>
          last.kind = "command" /\ last.command.cmd = "RemoveSender" /\ packet_send = {}
    /\ HandledCommand("crash") /\ last.command.cmd = "RemoveSender" /\ packet_send # {} =>
          pc = "crash"
    /\ pc = "crash" => packet_send # {}

(***************************************************************************)
(* C8.  While Crashing, a MsgFragment with hops h and cursor c is never    *)
(* forwarded toward h[c+1]: the only packet delivered is                   *)
(* Nack(ErrorInRouting(this drone)) with hops reverse(h[0..=c]) and        *)
(* hop_index 1, sent to h[c-1], whatever the drop rate.                    *)
(***************************************************************************)
C8_Case ==
    /\ HandledPacket("crash")
    /\ last.packet.pack_type = "MsgFragment"
    /\ CursorInRange
    /\ HasPreviousHop
    /\ Reachable(PreviousHop)

C8_NackBack ==
    C8_Case =>
        /\ Len(sent) = 1
        /\ sent[1].to = PreviousHop
        /\ sent[1].packet.pack_type = "Nack"
        /\ sent[1].packet.nack_type = <<"ErrorInRouting", id>>
        /\ sent[1].packet.hops = ReturnHops
        /\ sent[1].packet.hop_index = 1

(***************************************************************************)
(* C9.  Crash drain: while Crashing, every Ack, Nack and FloodResponse     *)
(* whose next hop the drone can send to is delivered to that hop with      *)
(* hop_index advanced by one and nothing else changed; afterwards the      *)
(* drone is still in crash's loop with the same neighbour table.  No       *)
(* packet that was forwarded takes the drone out of crash's loop.          *)
(***************************************************************************)
C9_Case ==
    /\ HandledPacket("crash")
    /\ last.packet.pack_type \in {"Ack", "Nack", "FloodResponse"}
    /\ HasNextHop
    /\ Reachable(NextHop)

C9_CrashDrain ==
    /\ C9_Case =>
          /\ sent = <<[to |-> NextHop, packet |-> Advanced]>>
          /\ pc = "crash"
          /\ crashed = last.pre.crashed
          /\ packet_send = last.pre.packet_send
    /\ HandledPacket("crash") /\ sent # <<>> =>
          pc = "crash" /\ packet_send = last.pre.packet_send

C9_Witness ==
    /\ C9_Case
    /\ last.packet.pack_type = "FloodResponse"
    /\ last.packet.hops = <<3, 2, 1>>
    /\ last.packet.hop_index = 1
    /\ sent[1].to = 1
    /\ sent[1].packet.hop_index = 2
    /\ pc = "crash"

(***************************************************************************)
(* C10.  While Crashing, a FloodRequest and every command other than       *)
(* RemoveSender change nothing: neighbour table, drop rate, flood cache    *)
(* and state are as before, nothing is sent and no event is emitted.       *)
(***************************************************************************)
C10_Case ==
    \/ HandledPacket("crash") /\ last.packet.pack_type = "FloodRequest"
    \/ HandledCommand("crash") /\ last.command.cmd # "RemoveSender"

C10_NoOp ==
    C10_Case =>
        /\ packet_send = last.pre.packet_send
        /\ pdr = last.pre.pdr
        /\ flood_cache = last.pre.flood_cache
        /\ pc = "crash"
        /\ crashed = last.pre.crashed
        /\ should_send_dropped = FALSE
        /\ sent = <<>>
        /\ events = <<>>

C10_Witness ==
    /\ HandledCommand("crash")
    /\ last.command.cmd = "AddSender"
    /\ last.command.arg \notin last.pre.packet_send
    /\ packet_send = last.pre.packet_send
    /\ pdr = last.pre.pdr

(***************************************************************************)
(* Vocabulary of the generated Nacks: the Nack the drone sends back for    *)
(* the packet in progress carries the reversed route travelled so far,     *)
(* hop_index 1, the session of the packet, and the fragment index of a     *)
(* MsgFragment or of a Nack (0 for the other packets).                     *)
(***************************************************************************)
ExpectedFragmentIndex ==
    IF last.packet.pack_type \in {"MsgFragment", "Nack"}
    THEN last.packet.fragment_index
    ELSE 0

ReturnNack(nack_type) ==
    Packet("Nack", ReturnHops, 1, last.packet.session_id, ExpectedFragmentIndex,
           nack_type, 0, 0, <<>>, 0)

(***************************************************************************)
(* C11.  When the channel of the hop a packet is to be forwarded to is     *)
(* closed (Running) or absent or closed (Crashing) at the send, the drone  *)
(* emits ControllerShortcut carrying the packet, delivers nothing, and     *)
(* stays alive in the state it was in.                                     *)
(***************************************************************************)
C11_Case ==
    \/ /\ HandledPacket("run")
       /\ PassesChecks
       /\ ~Dropped
       /\ ~Reachable(NextHop)
    \/ /\ HandledPacket("crash")
       /\ last.packet.pack_type \in {"Ack", "Nack", "FloodResponse"}
       /\ HasNextHop
       /\ ~Reachable(NextHop)

C11_ShortcutOnSendFailure ==
    C11_Case =>
        /\ sent = <<>>
        /\ events = <<[event |-> "ControllerShortcut", packet |-> Advanced]>>
        /\ pc = last.pre.pc

(***************************************************************************)
(* C12.  In the Running state, a non-flood packet whose current hop is     *)
(* this drone, whose cursor c is not at the last hop, whose next hop       *)
(* h[c+1] is absent from the neighbour table and whose previous hop h[c-1] *)
(* the drone can send to: nothing is forwarded, the Drop Simulator is not  *)
(* consulted, and exactly one packet is delivered, to h[c-1]: the Nack     *)
(* ErrorInRouting on the reversal of the original header.  As claimed, the *)
(* Nack carries the drone's own id (C12_OwnId); in the code it carries the *)
(* id of the missing next hop h[c+1] (C12_ErrorInRouting).                 *)
(***************************************************************************)
C12_Case ==
    /\ HandledPacket("run")
    /\ last.packet.pack_type # "FloodRequest"
    /\ CursorInRange
    /\ CurrentHop = id
    /\ HasNextHop
    /\ NextHop \notin last.pre.packet_send
    /\ HasPreviousHop
    /\ Reachable(PreviousHop)

C12_OwnId ==
    C12_Case =>
        /\ sent = <<[to |-> PreviousHop, packet |-> ReturnNack(<<"ErrorInRouting", id>>)]>>
        /\ last.draw = NoDraw

C12_ErrorInRouting ==
    C12_Case =>
        /\ sent = <<[to |-> PreviousHop,
                     packet |-> ReturnNack(<<"ErrorInRouting", NextHop>>)]>>
        /\ events = <<[event |-> "PacketSent",
                       packet |-> ReturnNack(<<"ErrorInRouting", NextHop>>)]>>
        /\ last.draw = NoDraw
        /\ pc = "run"

C12_Witness ==
    /\ C12_Case
    /\ last.packet.pack_type = "MsgFragment"
    /\ last.packet.hops = <<1, 2, 3>>
    /\ last.packet.hop_index = 1
    /\ last.pre.packet_send = {1}
    /\ last.pre.pdr = PdrScale
    /\ Len(sent) = 1
    /\ sent[1].to = 1
    /\ sent[1].packet.hops = <<2, 1>>
    /\ sent[1].packet.nack_type = <<"ErrorInRouting", 3>>

(***************************************************************************)
(* C13.  In the Running state, a non-flood packet whose cursor c is in     *)
(* range and whose current hop h[c] is not this drone: nothing is          *)
(* forwarded, exactly one packet is delivered, the Nack                    *)
(* UnexpectedRecipient(this drone) on the reversed header, with the        *)
(* fragment index of a MsgFragment or Nack and 0 otherwise, and the drone  *)
(* keeps running.  As claimed this includes c = 0 (C13_AnyCursor); in the  *)
(* code it holds for c >= 1 (C13_UnexpectedRecipient): at c = 0 the        *)
(* reversed header has one hop and no hop at index 1, and send_nack        *)
(* panics.                                                                 *)
(***************************************************************************)
C13_Case ==
    /\ HandledPacket("run")
    /\ last.packet.pack_type # "FloodRequest"
    /\ CursorInRange
    /\ CurrentHop # id

C13_AnyCursor ==
    C13_Case /\ (HasPreviousHop => Reachable(PreviousHop)) =>
        /\ Len(sent) = 1
        /\ sent[1].packet = ReturnNack(<<"UnexpectedRecipient", id>>)
        /\ pc = "run"

C13_UnexpectedRecipient ==
    C13_Case /\ HasPreviousHop /\ Reachable(PreviousHop) =>
        /\ sent = <<[to |-> PreviousHop,
                     packet |-> ReturnNack(<<"UnexpectedRecipient", id>>)]>>
        /\ events = <<[event |-> "PacketSent",
                       packet |-> ReturnNack(<<"UnexpectedRecipient", id>>)]>>
        /\ pc = "run"

C13_Witness ==
    /\ C13_Case
    /\ last.packet.pack_type = "Ack"
    /\ last.packet.fragment_index = 1
    /\ last.packet.hops = <<1, 3>>
    /\ last.packet.hop_index = 1
    /\ Len(sent) = 1
    /\ sent[1].to = 1
    /\ sent[1].packet.hops = <<3, 1>>
    /\ sent[1].packet.fragment_index = 0
    /\ sent[1].packet.nack_type = <<"UnexpectedRecipient", 2>>
    /\ pc = "run"

(***************************************************************************)
(* C14.  In the Running state, a non-flood packet of any type whose        *)
(* current hop is this drone and whose cursor is at the last index: the    *)
(* packet is not forwarded, the Drop Simulator is not consulted, and the   *)
(* only packet delivered is Nack(DestinationIsDrone) on the reversed       *)
(* header, to the previous hop whenever the drone can send to it, whatever *)
(* the drop rate and the other entries of the neighbour table.             *)
(***************************************************************************)
C14_Case ==
    /\ HandledPacket("run")
    /\ last.packet.pack_type # "FloodRequest"
    /\ CursorInRange
    /\ CurrentHop = id
    /\ last.packet.hop_index = Len(last.packet.hops) - 1

C14_DestinationIsDrone ==
    C14_Case =>
        /\ last.draw = NoDraw
        /\ \A i \in 1..Len(sent) :
               /\ HasPreviousHop
               /\ sent[i] = [to |-> PreviousHop,
                             packet |-> ReturnNack(<<"DestinationIsDrone", 0>>)]
        /\ HasPreviousHop /\ Reachable(PreviousHop) =>
               /\ Len(sent) = 1
               /\ events = <<[event |-> "PacketSent",
                              packet |-> ReturnNack(<<"DestinationIsDrone", 0>>)]>>
               /\ pc = "run"

C14_Witness ==
    /\ C14_Case
    /\ last.packet.pack_type = "MsgFragment"
    /\ last.packet.hops = <<1, 2>>
    /\ last.packet.hop_index = 1
    /\ last.pre.pdr = PdrScale
    /\ last.pre.packet_send = {1, 3}
    /\ Len(sent) = 1
    /\ sent[1].to = 1
    /\ sent[1].packet.pack_type = "Nack"
    /\ sent[1].packet.hops = <<2, 1>>
    /\ sent[1].packet.hop_index = 1
    /\ sent[1].packet.nack_type = <<"DestinationIsDrone", 0>>

(***************************************************************************)
(* Vocabulary of the flood properties.  A FloodRequest arrives with the    *)
(* hops traversed so far in its header and the cursor advanced by every    *)
(* broadcast: it is well formed when the hops do not hold this drone yet,  *)
(* the cursor is the number of hops, and the path trace ends with the node *)
(* the request arrived from, the last of the hops.                         *)
(***************************************************************************)
FloodHandled == HandledPacket("run") /\ last.packet.pack_type = "FloodRequest"

FloodKey == <<last.packet.flood_id, last.packet.initiator_id>>

SeenBefore == FloodKey \in last.pre.seen

FloodIdSeenBefore == \E k \in last.pre.seen : k[1] = last.packet.flood_id

Me == <<id, "Drone">>

WellFormedFlood ==
    /\ Len(last.packet.hops) >= 1
    /\ last.packet.hop_index = Len(last.packet.hops)
    /\ ~contains(last.packet.hops, id)
    /\ ~contains(last.packet.path_trace, Me)
    /\ last.packet.path_trace[Len(last.packet.path_trace)][1]
           = last.packet.hops[Len(last.packet.hops)]

ArrivedFrom == last.packet.hops[Len(last.packet.hops)]

Rebroadcast == \E i \in 1..Len(sent) : sent[i].packet.pack_type = "FloodRequest"

IsFloodResponse(m) ==
    /\ m.packet.pack_type = "FloodResponse"
    /\ m.packet.flood_id = last.packet.flood_id

(***************************************************************************)
(* C15.  Flood idempotence: a Running drone that receives a FloodRequest   *)
(* whose (flood_id, initiator_id) it has received before never             *)
(* re-broadcasts it, whatever the size of its neighbour table: the only    *)
(* packet it delivers is a FloodResponse of that flood, and it delivers    *)
(* exactly one, to the node the request arrived from, when the request is  *)
(* well formed and the drone can send to that node.                        *)
(***************************************************************************)
C15_Case == FloodHandled /\ SeenBefore

C15_Idempotence ==
    C15_Case =>
        /\ ~Rebroadcast
        /\ Len(sent) <= 1
        /\ \A i \in 1..Len(sent) : IsFloodResponse(sent[i])
        /\ WellFormedFlood /\ Reachable(ArrivedFrom) =>
               Len(sent) = 1 /\ sent[1].to = ArrivedFrom

C15_Witness ==
    /\ C15_Case
    /\ WellFormedFlood
    /\ Cardinality(last.pre.packet_send) = 2
    /\ last.packet.flood_id = 7
    /\ last.packet.initiator_id = 1
    /\ last.packet.hops = <<3>>
    /\ last.packet.hop_index = 1
    /\ Len(sent) = 1
    /\ sent[1].to = 3
    /\ sent[1].packet.pack_type = "FloodResponse"
    /\ sent[1].packet.flood_id = 7

(***************************************************************************)
(* C16.  First sight of a flood by a Running drone with more than one      *)
(* neighbour, all of them connected: the well-formed request is            *)
(* re-broadcast once to every neighbour except the one it arrived from,    *)
(* and not to that one; every copy carries the inbound path trace with     *)
(* (this drone, Drone) appended, and one PacketSent event is emitted per   *)
(* copy.                                                                   *)
(***************************************************************************)
C16_Case ==
    /\ FloodHandled
    /\ ~FloodIdSeenBefore
    /\ Cardinality(last.pre.packet_send) > 1
    /\ last.pre.packet_send \cap last.pre.closed = {}
    /\ WellFormedFlood

C16_Rebroadcast ==
    C16_Case =>
        /\ {sent[i].to : i \in 1..Len(sent)} = last.pre.packet_send \ {ArrivedFrom}
        /\ Len(sent) = Cardinality(last.pre.packet_send \ {ArrivedFrom})
        /\ \A i \in 1..Len(sent) :
               /\ sent[i].packet.pack_type = "FloodRequest"
               /\ sent[i].packet.flood_id = last.packet.flood_id
               /\ sent[i].packet.initiator_id = last.packet.initiator_id
               /\ sent[i].packet.path_trace = Append(last.packet.path_trace, Me)
        /\ Len(events) = Len(sent)
        /\ \A i \in 1..Len(events) :
               events[i] = [event |-> "PacketSent", packet |-> sent[i].packet]

(***************************************************************************)
(* C17.  Flood leaf: a Running drone whose neighbour table has exactly one *)
(* entry never re-broadcasts a FloodRequest, also on first sight of the    *)
(* flood id; it records the flood in its cache, the only packet it         *)
(* delivers is a FloodResponse with the same flood_id, and it delivers     *)
(* exactly one when the request is well formed and arrived from that       *)
(* neighbour, whose channel is open.                                       *)
(***************************************************************************)
C17_Case == FloodHandled /\ Cardinality(last.pre.packet_send) = 1

C17_Leaf ==
    C17_Case =>
        /\ ~Rebroadcast
        /\ \E k \in flood_cache : k[2] = last.packet.flood_id
        /\ Len(sent) <= 1
        /\ \A i \in 1..Len(sent) : IsFloodResponse(sent[i])
        /\ WellFormedFlood /\ Reachable(ArrivedFrom) =>
               /\ Len(sent) = 1
               /\ sent[1].to = ArrivedFrom
               /\ events = <<[event |-> "PacketSent", packet |-> sent[1].packet]>>

C17_Witness ==
    /\ C17_Case
    /\ WellFormedFlood
    /\ last.pre.seen = {}
    /\ last.pre.packet_send = {1}
    /\ last.packet.hops = <<1>>
    /\ last.packet.flood_id = 7
    /\ Len(sent) = 1
    /\ sent[1].to = 1
    /\ sent[1].packet.pack_type = "FloodResponse"
    /\ sent[1].packet.flood_id = 7
    /\ <<id, 7>> \in flood_cache

(***************************************************************************)
(* C18.  Whenever a Running drone answers a FloodRequest with a            *)
(* FloodResponse, for any number of hops already traversed, the response   *)
(* carries the path trace of the request with (this drone, Drone) in it    *)
(* exactly once, its hops are the reverse of the hops traversed followed   *)
(* by this drone, its cursor is 1 and selects the node the request arrived *)
(* from, the last of the hops traversed, and the response is delivered to  *)
(* that node.  The request has traversed at least one hop, none of them    *)
(* this drone, its cursor lies within the hops traversed (advanced by      *)
(* every broadcast, or left behind as the re-broadcast of this drone       *)
(* leaves it), and the drone can send to every node of the hops, so that   *)
(* no send fails.                                                          *)
(***************************************************************************)
Answers ==
    /\ FloodHandled
    /\ \/ \E k \in last.pre.flood_cache : k[2] = last.packet.flood_id
       \/ Cardinality(last.pre.packet_send) <= 1

ExpectedTrace ==
    IF contains(last.packet.path_trace, Me)
    THEN last.packet.path_trace
    ELSE Append(last.packet.path_trace, Me)

HopsTraversed ==
    /\ Len(last.packet.hops) >= 1
    /\ ~contains(last.packet.hops, id)
    /\ last.packet.hop_index \in 1..Len(last.packet.hops)
    /\ \A i \in 1..Len(last.packet.hops) : Reachable(last.packet.hops[i])

C18_Response ==
    /\ FloodHandled =>
          \A i \in 1..Len(sent) :
              sent[i].packet.pack_type = "FloodResponse" =>
                  /\ sent[i].packet.path_trace = ExpectedTrace
                  /\ Cardinality({j \in 1..Len(sent[i].packet.path_trace) :
                                     sent[i].packet.path_trace[j] = Me}) = 1
                  /\ sent[i].packet.flood_id = last.packet.flood_id
                  /\ HopsTraversed =>
                         /\ sent[i].packet.hops = Reverse(Append(last.packet.hops, id))
                         /\ sent[i].packet.hop_index = 1
                         /\ sent[i].to = ArrivedFrom
    /\ Answers /\ HopsTraversed =>
          Len(sent) = 1 /\ sent[1].packet.pack_type = "FloodResponse"

(***************************************************************************)
(* C19.  The flood decision is keyed by (flood_id, initiator_id): a        *)
(* Running drone with more than one neighbour, all connected, that         *)
(* receives a well-formed FloodRequest whose (flood_id, initiator_id) it   *)
(* has not received before records it and re-broadcasts it, also when an   *)
(* earlier flood of another initiator had the same flood_id.               *)
(***************************************************************************)
C19_Case ==
    /\ FloodHandled
    /\ ~SeenBefore
    /\ Cardinality(last.pre.packet_send) > 1
    /\ last.pre.packet_send \cap last.pre.closed = {}
    /\ WellFormedFlood

C19_KeyedByPair ==
    C19_Case =>
        /\ Rebroadcast
        /\ \A i \in 1..Len(sent) : sent[i].packet.pack_type = "FloodRequest"
        /\ \E k \in flood_cache : k[2] = last.packet.flood_id

(***************************************************************************)
(* C20.  Crash-drain liveness: under fair scheduling, with the controller  *)
(* eventually sending RemoveSender for every neighbour, a drone that has   *)
(* received Crash and has neighbours in its table eventually leaves        *)
(* crash's loop as Terminated, whatever packets arrive meanwhile.          *)
(***************************************************************************)
Crashing == pc = "crash" /\ packet_send # {}

Terminated == pc = "run" /\ crashed

C20_CrashDrainLiveness == Crashing ~> Terminated

(***************************************************************************)
(* C21.  should_send_dropped is false whenever the drone is alive, hence   *)
(* whenever it waits for its next input in run's loop or in crash's loop:  *)
(* it is set only in the handling of a fragment that passed the checks and *)
(* was selected for dropping, and the send of that fragment's Nack clears  *)
(* it.  PacketDropped is emitted only in the handling of such a fragment,  *)
(* never for a packet handled later, and the handling of a packet leaves   *)
(* the neighbour table and the drop rate as they were.                     *)
(***************************************************************************)
DroppedFragmentHandled ==
    /\ HandledPacket("run")
    /\ last.packet.pack_type = "MsgFragment"
    /\ PassesChecks
    /\ Dropped

C21_FlagClear ==
    /\ pc # "panic" => should_send_dropped = FALSE
    /\ AtLoopHead => should_send_dropped = FALSE
    /\ should_send_dropped => DroppedFragmentHandled
    /\ \A i \in 1..Len(events) :
           events[i].event = "PacketDropped" => DroppedFragmentHandled /\ Len(events) = 1
    /\ last.kind = "packet" =>
           packet_send = last.pre.packet_send /\ pdr = last.pre.pdr

C21_Witness ==
    /\ DroppedFragmentHandled
    /\ last.packet.hops = <<1, 2, 3>>
    /\ last.packet.hop_index = 1
    /\ pc = "run"
    /\ Len(sent) = 1
    /\ sent[1].to = 1
    /\ sent[1].packet.nack_type = <<"Dropped", 0>>
    /\ events[1].event = "PacketDropped"
    /\ should_send_dropped = FALSE
    /\ packet_send = last.pre.packet_send

====
